---- MODULE Spec2Model ----
(***************************************************************************)
(* Walmart advertising report snapshot fetcher: the credential provider    *)
(* (auth.py) and the snapshot job client (snapshot_client.py).             *)
(*                                                                         *)
(* A call of a Python function is modelled by an operator that returns a   *)
(* result record: exc is the class of the exception that left the call     *)
(* (None when it returned), site names the raise statement, value is the   *)
(* return value, cache is the token cache after the call and reqs is the   *)
(* sequence of HTTP requests the call issued.                              *)
(***************************************************************************)
EXTENDS Integers, Sequences, FiniteSets, TLC

VARIABLES
    now,           \* the wall clock, in seconds (time.time())
    env,           \* the module globals config.py loads from the environment
    token_cache,   \* auth._token_cache
    pc,            \* "idle", "poll" (in the loop of poll_snapshot) or "returned"
    op,            \* the current or most recent call and what it did
    job,           \* the remote job as the status endpoint will report it
    lastEx,        \* history: the most recent successful credential exchange
    files          \* the paths that exist in the reports directory

vars == <<now, env, token_cache, pc, op, job, lastEx, files>>

None == "None"

(***************************************************************************)
(* Bounds of the model.                                                    *)
(***************************************************************************)
\* the clock runs from 0 to MaxTime seconds
MaxTime == 4
\* how many days around each limit of the date checks the inputs cover
DateSlack == 1
\* the remote job ends at one of the first MaxEarly attempts, at the last
\* attempt of the budget, or not within the budget
MaxEarly == 3

(***************************************************************************)
(* config.py                                                               *)
(***************************************************************************)
DOWNLOAD_URL == [host |-> "advertising.walmart.com", path |-> "/display/file", query |-> ""]
TOKEN_URL == [host |-> "api-gateway.walmart.com", path |-> "/v3/token", query |-> ""]
BASE_URL == [host |-> "developer.api.us.walmart.com",
             path |-> "/api-proxy/service/display/api/v1/api/v1", query |-> ""]
VALID_REPORT_TYPES ==
    <<"campaign", "lineItem", "tactic", "sku", "creative", "bid", "newBuyer">>
MAX_DATE_RANGE == 60
SKU_MAX_RANGE == 15
POLL_INTERVAL == 30
MAX_POLL_ATTEMPTS == 60

\* env: each of the three required settings is a string, "" when unset
Envs ==
    [WALMART_CLIENT_ID : {"", "client-1"},
     WALMART_CLIENT_SECRET : {"", "secret-1"},
     WALMART_PRIVATE_KEY_PATH : {"", "private_key.pem"}]

(***************************************************************************)
(* The HTTP transport (requests).  A response is a status code, whether    *)
(* its body parses as JSON, and the parsed object (a function from field   *)
(* names to values).                                                       *)
(***************************************************************************)
StatusCodes == {200, 404, 500}

\* Response.raise_for_status: HTTPError for 4xx and 5xx
raise_for_status(resp) == 400 <= resp.status /\ resp.status < 600

\* dict.get(key, default)
Get(d, key, default) == IF key \in DOMAIN d THEN d[key] ELSE default

\* str.upper on the method names in use
Upper(m) ==
    CASE m = "get" -> "GET"
      [] m = "post" -> "POST"
      [] OTHER -> m

\* urlparse(url).path: the URL without scheme, host and query
UrlPath(url) == url.path

Result(exc, site, value, cache, reqs) ==
    [exc |-> exc, site |-> site, value |-> value, cache |-> cache, reqs |-> reqs]

Request(method, url, headers) ==
    [method |-> method, url |-> url, headers |-> headers]

(***************************************************************************)
(* auth.py                                                                 *)
(***************************************************************************)
Tokens == {"tok-a", "tok-b"}
\* expires_in values of the token endpoint; the cache keeps a token for
\* expires_in - 60 seconds
ExpiresIn == {60, 61, 62}

TokenBodies ==
    [access_token : Tokens, expires_in : ExpiresIn]
        \cup [access_token : Tokens]
        \cup [expires_in : ExpiresIn]

TokenResponses ==
    [status : {200}, json : {TRUE}, body : TokenBodies]
        \cup [status : StatusCodes, json : {FALSE}, body : {[error |-> "x"]}]

\* the private key file when it is opened: a PEM key, or no such file
KeyFiles == {"pem", "missing"}

\* _validate_credentials that forgets the client secret
_validate_credentials_no_secret ==
    IF env.WALMART_CLIENT_ID = "" THEN "WALMART_CLIENT_ID"
    ELSE IF env.WALMART_PRIVATE_KEY_PATH = "" THEN "WALMART_PRIVATE_KEY_PATH"
    ELSE None

\* the first required setting that is empty, None when all are set
_validate_credentials ==
    IF env.WALMART_CLIENT_ID = "" THEN "WALMART_CLIENT_ID"
    ELSE IF env.WALMART_CLIENT_SECRET = "" THEN "WALMART_CLIENT_SECRET"
    ELSE IF env.WALMART_PRIVATE_KEY_PATH = "" THEN "WALMART_PRIVATE_KEY_PATH"
    ELSE None

\* _get_access_token with the expiry test off by one: a token is still
\* reused at the second it expires
_get_access_token_reuse_at_expiry(t, cache, resp) ==
    IF cache.access_token # None /\ t <= cache.expires_at
    THEN Result(None, None, cache.access_token, cache, <<>>)
    ELSE IF _validate_credentials # None
    THEN Result("ValueError", _validate_credentials, None, cache, <<>>)
    ELSE
        LET req == Request("POST", TOKEN_URL,
                           [Authorization |-> <<"Basic", <<env.WALMART_CLIENT_ID,
                                                          env.WALMART_CLIENT_SECRET>>>>])
        IN  IF raise_for_status(resp)
            THEN Result("HTTPError", "token", None, cache, <<req>>)
            ELSE IF ~resp.json
            THEN Result("JSONDecodeError", "token", None, cache, <<req>>)
            ELSE IF "access_token" \notin DOMAIN resp.body
            THEN Result("KeyError", "access_token", None, cache, <<req>>)
            ELSE Result(None, None, resp.body.access_token,
                        [access_token |-> resp.body.access_token,
                         expires_at |-> t + Get(resp.body, "expires_in", 3600) - 60],
                        <<req>>)

\* _get_access_token that caches the token until its true expiry, without
\* the 60 second margin
_get_access_token_no_margin(t, cache, resp) ==
    IF cache.access_token # None /\ t < cache.expires_at
    THEN Result(None, None, cache.access_token, cache, <<>>)
    ELSE IF _validate_credentials # None
    THEN Result("ValueError", _validate_credentials, None, cache, <<>>)
    ELSE
        LET req == Request("POST", TOKEN_URL,
                           [Authorization |-> <<"Basic", <<env.WALMART_CLIENT_ID,
                                                          env.WALMART_CLIENT_SECRET>>>>])
        IN  IF raise_for_status(resp)
            THEN Result("HTTPError", "token", None, cache, <<req>>)
            ELSE IF ~resp.json
            THEN Result("JSONDecodeError", "token", None, cache, <<req>>)
            ELSE IF "access_token" \notin DOMAIN resp.body
            THEN Result("KeyError", "access_token", None, cache, <<req>>)
            ELSE Result(None, None, resp.body.access_token,
                        [access_token |-> resp.body.access_token,
                         expires_at |-> t + Get(resp.body, "expires_in", 3600)],
                        <<req>>)

_get_access_token(t, cache, resp) ==
    IF cache.access_token # None /\ t < cache.expires_at
    THEN Result(None, None, cache.access_token, cache, <<>>)
    ELSE IF _validate_credentials # None
    THEN Result("ValueError", _validate_credentials, None, cache, <<>>)
    ELSE
        LET credentials == <<env.WALMART_CLIENT_ID, env.WALMART_CLIENT_SECRET>>
            req == Request("POST", TOKEN_URL,
                           [Authorization |-> <<"Basic", credentials>>])
        IN  IF raise_for_status(resp)
            THEN Result("HTTPError", "token", None, cache, <<req>>)
            ELSE IF ~resp.json
            THEN Result("JSONDecodeError", "token", None, cache, <<req>>)
            ELSE IF "access_token" \notin DOMAIN resp.body
            THEN Result("KeyError", "access_token", None, cache, <<req>>)
            ELSE
                LET access_token == resp.body.access_token
                    expires_in == Get(resp.body, "expires_in", 3600)
                IN  Result(None, None, access_token,
                           [access_token |-> access_token,
                            expires_at |-> t + expires_in - 60],
                           <<req>>)

\* The RSA PKCS#1 v1.5 signature is a function of the key and of the signed
\* string: it is modelled by the fields of the string that was signed.
_generate_signature(method, url, timestamp, keyfile) ==
    LET request_path == UrlPath(url)
        string_to_sign ==
            <<env.WALMART_CLIENT_ID, timestamp, Upper(method), request_path>>
    IN  IF keyfile # "pem"
        THEN [exc |-> "FileNotFoundError", value |-> None]
        ELSE [exc |-> None, value |-> string_to_sign]

\* get_auth_headers that keeps the timestamp with the token: a call that
\* reuses the token reuses the timestamp of the exchange
get_auth_headers_cached_timestamp(args, t, cache, resp, keyfile) ==
    IF Len(args) # 2
    THEN Result("TypeError", "get_auth_headers", None, cache, <<>>)
    ELSE IF _validate_credentials # None
    THEN Result("ValueError", _validate_credentials, None, cache, <<>>)
    ELSE
        LET tok == _get_access_token(t, cache, resp)
            timestamp == IF tok.reqs = <<>> THEN lastEx.t * 1000 ELSE t * 1000
            signature == _generate_signature(args[1], args[2], timestamp, keyfile)
        IN  IF tok.exc # None
            THEN tok
            ELSE IF signature.exc # None
            THEN Result(signature.exc, "private_key", None, tok.cache, tok.reqs)
            ELSE Result(None, None,
                        [Authorization |-> <<"Bearer", tok.value>>,
                         WM_CONSUMER_ID |-> env.WALMART_CLIENT_ID,
                         WM_SEC_AUTH_SIGNATURE |-> signature.value,
                         WM_CONSUMER_intimestamp |-> timestamp,
                         WM_SEC_KEY_VERSION |-> "1",
                         ContentType |-> "application/json"],
                        tok.cache, tok.reqs)

\* Python binds the arguments of the call first: get_auth_headers has two
\* required positional parameters, method and url.
get_auth_headers(args, t, cache, resp, keyfile) ==
    IF Len(args) # 2
    THEN Result("TypeError", "get_auth_headers", None, cache, <<>>)
    ELSE
        LET method == args[1]
            url == args[2]
        IN  IF _validate_credentials # None
            THEN Result("ValueError", _validate_credentials, None, cache, <<>>)
            ELSE
                LET tok == _get_access_token(t, cache, resp)
                    timestamp == t * 1000
                    signature == _generate_signature(method, url, timestamp, keyfile)
                IN  IF tok.exc # None
                    THEN tok
                    ELSE IF signature.exc # None
                    THEN Result(signature.exc, "private_key", None, tok.cache, tok.reqs)
                    ELSE Result(None, None,
                                [Authorization |-> <<"Bearer", tok.value>>,
                                 WM_CONSUMER_ID |-> env.WALMART_CLIENT_ID,
                                 WM_SEC_AUTH_SIGNATURE |-> signature.value,
                                 WM_CONSUMER_intimestamp |-> timestamp,
                                 WM_SEC_KEY_VERSION |-> "1",
                                 ContentType |-> "application/json"],
                                tok.cache, tok.reqs)

(***************************************************************************)
(* snapshot_client.py                                                      *)
(***************************************************************************)
\* A date argument is a string: one that strptime("%Y-%m-%d") parses to
\* midnight of the calendar day `day` (days counted from the day the clock
\* starts in), or one it rejects.
SECONDS_PER_DAY == 86400
TWO_YEARS_DAYS == 730
Days ==
    ((0 - TWO_YEARS_DAYS - DateSlack) .. (0 - TWO_YEARS_DAYS))
        \cup ((0 - MAX_DATE_RANGE - 1 - DateSlack) .. (0 - MAX_DATE_RANGE - 1))
        \cup ((0 - SKU_MAX_RANGE - 1 - DateSlack) .. (0 - SKU_MAX_RANGE - 1))
        \cup ((0 - 1) .. DateSlack)
DateStrings ==
    [ok : {TRUE}, day : Days] \cup {[ok |-> FALSE, day |-> 0]}
ReportTypes == {VALID_REPORT_TYPES[i] : i \in DOMAIN VALID_REPORT_TYPES} \cup {"video"}
AdvertiserIds == {"600001"}
SnapshotIds == {"snap-1"}

\* datetime.now().replace(hour=0, minute=0, second=0, microsecond=0)
Today(t) == t \div SECONDS_PER_DAY

\* _validate_dates with the age check ahead of the end-date check
_validate_dates_age_first(report_type, start_date, end_date, t) ==
    IF ~start_date.ok \/ ~end_date.ok
    THEN "strptime"
    ELSE
        LET start == start_date.day
            end == end_date.day
            today == Today(t)
            max_range == IF report_type = "sku" THEN SKU_MAX_RANGE ELSE MAX_DATE_RANGE
        IN  IF start > end THEN "start_after_end"
            ELSE IF start < today - TWO_YEARS_DAYS THEN "start_too_old"
            ELSE IF end >= today THEN "end_not_past"
            ELSE IF end - start > max_range THEN "range_too_long"
            ELSE None

\* _validate_dates with one range limit for every report type
_validate_dates_one_limit(report_type, start_date, end_date, t) ==
    IF ~start_date.ok \/ ~end_date.ok
    THEN "strptime"
    ELSE
        LET start == start_date.day
            end == end_date.day
            today == Today(t)
        IN  IF start > end THEN "start_after_end"
            ELSE IF end >= today THEN "end_not_past"
            ELSE IF start < today - TWO_YEARS_DAYS THEN "start_too_old"
            ELSE IF end - start > MAX_DATE_RANGE THEN "range_too_long"
            ELSE None

\* _validate_dates that lets the current day through
_validate_dates_today_allowed(report_type, start_date, end_date, t) ==
    IF ~start_date.ok \/ ~end_date.ok
    THEN "strptime"
    ELSE
        LET start == start_date.day
            end == end_date.day
            today == Today(t)
            max_range == IF report_type = "sku" THEN SKU_MAX_RANGE ELSE MAX_DATE_RANGE
        IN  IF start > end THEN "start_after_end"
            ELSE IF end > today THEN "end_not_past"
            ELSE IF start < today - TWO_YEARS_DAYS THEN "start_too_old"
            ELSE IF end - start > max_range THEN "range_too_long"
            ELSE None

\* the raise statement of _validate_dates that rejects the dates, None when
\* none does
_validate_dates(report_type, start_date, end_date, t) ==
    IF ~start_date.ok \/ ~end_date.ok
    THEN "strptime"
    ELSE
        LET start == start_date.day
            end == end_date.day
            today == Today(t)
            two_years_ago == today - TWO_YEARS_DAYS
            delta_days == end - start
            max_range == IF report_type = "sku" THEN SKU_MAX_RANGE ELSE MAX_DATE_RANGE
        IN  IF start > end THEN "start_after_end"
            ELSE IF end >= today THEN "end_not_past"
            ELSE IF start < two_years_ago THEN "start_too_old"
            ELSE IF delta_days > max_range THEN "range_too_long"
            ELSE None

CreateBodies == {[snapshotId |-> "snap-1"], [snapshotId |-> ""], [message |-> "x"]}
CreateResponses ==
    [status : {200}, json : {TRUE}, body : CreateBodies]
        \cup [status : StatusCodes \ {200}, json : {FALSE}, body : {[error |-> "x"]}]

\* url of create_snapshot and url of poll_snapshot
SnapshotReportUrl == [BASE_URL EXCEPT !.path = BASE_URL.path \o "/snapshot/report"]
SnapshotUrl == [BASE_URL EXCEPT !.path = BASE_URL.path \o "/snapshot"]

\* create_snapshot that builds the headers of its request before it looks
\* at its input
create_snapshot_headers_first(advertiser_id, report_type, start_date, end_date, t, cache, resp, token_resp, keyfile) ==
    LET headers == get_auth_headers(<<"POST", SnapshotReportUrl>>, t, cache,
                                    token_resp, keyfile)
        payload == [advertiserId |-> advertiser_id, reportType |-> report_type,
                    startDate |-> start_date, endDate |-> end_date]
        req == [method |-> "POST", url |-> SnapshotReportUrl,
                headers |-> headers.value, body |-> payload]
        reqs == Append(headers.reqs, req)
    IN  IF headers.exc # None
        THEN headers
        ELSE IF ~(\E i \in DOMAIN VALID_REPORT_TYPES : VALID_REPORT_TYPES[i] = report_type)
        THEN Result("ValueError", "report_type", None, headers.cache, headers.reqs)
        ELSE IF _validate_dates(report_type, start_date, end_date, t) # None
        THEN Result("ValueError", _validate_dates(report_type, start_date, end_date, t),
                    None, headers.cache, headers.reqs)
        ELSE IF raise_for_status(resp)
        THEN Result("HTTPError", "create", None, headers.cache, reqs)
        ELSE IF ~resp.json
        THEN Result("JSONDecodeError", "create", None, headers.cache, reqs)
        ELSE IF Get(resp.body, "snapshotId", "") = ""
        THEN Result("RuntimeError", "no_snapshotId", None, headers.cache, reqs)
        ELSE Result(None, None, resp.body.snapshotId, headers.cache, reqs)

\* create_snapshot from the POST on, given what get_auth_headers() did
create_request(advertiser_id, report_type, start_date, end_date, resp, headers) ==
    LET url == SnapshotReportUrl
        payload == [advertiserId |-> advertiser_id, reportType |-> report_type,
                    startDate |-> start_date, endDate |-> end_date]
        req == [method |-> "POST", url |-> url, headers |-> headers.value,
                body |-> payload]
        reqs == Append(headers.reqs, req)
    IN  IF headers.exc # None
        THEN headers
        ELSE IF raise_for_status(resp)
        THEN Result("HTTPError", "create", None, headers.cache, reqs)
        ELSE IF ~resp.json
        THEN Result("JSONDecodeError", "create", None, headers.cache, reqs)
        ELSE IF Get(resp.body, "snapshotId", "") = ""
        THEN Result("RuntimeError", "no_snapshotId", None, headers.cache, reqs)
        ELSE Result(None, None, resp.body.snapshotId, headers.cache, reqs)

create_snapshot(advertiser_id, report_type, start_date, end_date, t, cache, resp, token_resp, keyfile) ==
    IF ~(\E i \in DOMAIN VALID_REPORT_TYPES : VALID_REPORT_TYPES[i] = report_type)
    THEN Result("ValueError", "report_type", None, cache, <<>>)
    ELSE IF _validate_dates(report_type, start_date, end_date, t) # None
    THEN Result("ValueError", _validate_dates(report_type, start_date, end_date, t),
                None, cache, <<>>)
    ELSE create_request(advertiser_id, report_type, start_date, end_date, resp,
                        get_auth_headers(<<>>, t, cache, token_resp, keyfile))

\* The status endpoint.  A 2xx body has a jobStatus (or none) and, when
\* done, a details URL (or none, or an empty one).
DetailsUrl == "https://advertising.walmart.com/display/file/f-1"
NonTerminalBodies ==
    {[jobStatus |-> "pending"], [jobStatus |-> "processing"],
     [jobStatus |-> "queued"], [message |-> "x"]}
TerminalBodies ==
    {[jobStatus |-> "done", details |-> DetailsUrl],
     [jobStatus |-> "done", details |-> ""],
     [jobStatus |-> "done"],
     [jobStatus |-> "failed"],
     [jobStatus |-> "expired"]}
NonTerminalResponses == [status : {200}, json : {TRUE}, body : NonTerminalBodies]
FinalResponses ==
    [status : {200}, json : {TRUE}, body : TerminalBodies]
        \cup [status : StatusCodes \ {200}, json : {FALSE}, body : {[error |-> "x"]}]

\* The remote job: the status endpoint answers the attempts before doneAt
\* with a non-terminal 2xx response and every later one with `final`.
JobDoneAts == (1 .. MaxEarly) \cup {MAX_POLL_ATTEMPTS, MAX_POLL_ATTEMPTS + 1}
Jobs == [doneAt : JobDoneAts, final : FinalResponses]
StatusResponses(j, attempt) ==
    IF attempt < j.doneAt THEN NonTerminalResponses ELSE {j.final}

\* One iteration of the for loop of poll_snapshot, and what follows the loop
\* when it was the last one.  next is "return", "raise" or "continue".
PollResult(next, exc, site, value, cache, reqs, slept) ==
    [next |-> next, exc |-> exc, site |-> site, value |-> value,
     cache |-> cache, reqs |-> reqs, slept |-> slept]

\* poll_iteration that treats a failure to build the headers like a job that
\* is not ready: it sleeps and tries again while attempts remain
poll_iteration_retry_on_error(advertiser_id, snapshot_id, attempt, t, cache, resp, token_resp, keyfile) ==
    LET headers == get_auth_headers(<<>>, t, cache, token_resp, keyfile)
    IN  IF attempt < MAX_POLL_ATTEMPTS
        THEN PollResult("continue", None, None, None, headers.cache, headers.reqs, TRUE)
        ELSE PollResult("raise", "TimeoutError", "poll_timeout", None,
                        headers.cache, headers.reqs, FALSE)

\* the iteration from the GET on, given what get_auth_headers() did
poll_request(advertiser_id, snapshot_id, attempt, resp, headers) ==
    LET url == SnapshotUrl
        params == [advertiserId |-> advertiser_id, snapshotId |-> snapshot_id]
        req == [method |-> "GET", url |-> url, headers |-> headers.value,
                params |-> params]
        reqs == Append(headers.reqs, req)
        data == resp.body
        status == Get(data, "jobStatus", "unknown")
    IN  IF headers.exc # None
        THEN PollResult("raise", headers.exc, headers.site, None, headers.cache,
                        headers.reqs, FALSE)
        ELSE IF raise_for_status(resp)
        THEN PollResult("raise", "HTTPError", "poll", None, headers.cache, reqs, FALSE)
        ELSE IF ~resp.json
        THEN PollResult("raise", "JSONDecodeError", "poll", None, headers.cache, reqs, FALSE)
        ELSE IF status = "done"
        THEN IF Get(data, "details", "") = ""
             THEN PollResult("raise", "RuntimeError", "done_no_details", None,
                             headers.cache, reqs, FALSE)
             ELSE PollResult("return", None, None, data, headers.cache, reqs, FALSE)
        ELSE IF status = "failed"
        THEN PollResult("raise", "RuntimeError", "job_failed", None, headers.cache, reqs, FALSE)
        ELSE IF status = "expired"
        THEN PollResult("raise", "RuntimeError", "job_expired", None, headers.cache, reqs, FALSE)
        ELSE IF attempt < MAX_POLL_ATTEMPTS
        THEN PollResult("continue", None, None, None, headers.cache, reqs, TRUE)
        ELSE PollResult("raise", "TimeoutError", "poll_timeout", None,
                        headers.cache, reqs, FALSE)

poll_iteration(advertiser_id, snapshot_id, attempt, t, cache, resp, token_resp, keyfile) ==
    poll_request(advertiser_id, snapshot_id, attempt, resp,
                 get_auth_headers(<<>>, t, cache, token_resp, keyfile))

\* The file URLs in use, and the last segment of their path:
\* urlparse(file_url).path.rstrip("/").split("/")[-1]
FileUrls == {DetailsUrl, DetailsUrl \o "/", "https://advertising.walmart.com"}
file_id(file_url) ==
    CASE file_url = DetailsUrl -> "f-1"
      [] file_url = DetailsUrl \o "/" -> "f-1"
      [] OTHER -> ""

OutputPaths == {"reports/out.csv"}
\* what the file endpoint may answer: a gzip stream, bytes that are not
\* gzip, or an error status
DownloadBodies == {[gzip |-> TRUE, data |-> "csv"], [gzip |-> FALSE, data |-> "html"]}
DownloadResponses ==
    [status : {200}, json : {FALSE}, body : DownloadBodies]
        \cup [status : StatusCodes \ {200}, json : {FALSE}, body : {[error |-> "x"]}]
\* where the transfer may break: the stream while it is read into the .gz
\* file, or the disk while the CSV is written
Faults == {"none", "stream", "disk"}

DownloadResult(exc, site, value, cache, reqs, fs) ==
    [exc |-> exc, site |-> site, value |-> value, cache |-> cache, reqs |-> reqs,
     files |-> fs]

\* download_report that opens the .gz file before it builds the headers
download_report_open_first(file_url, advertiser_id, output_path, t, cache, fs, resp, token_resp, keyfile, fault) ==
    LET download_url == [DOWNLOAD_URL EXCEPT !.path = @ \o "/" \o file_id(file_url)]
        params == [advertiserId |-> advertiser_id]
        headers == get_auth_headers(<<>>, t, cache, token_resp, keyfile)
        \* headers.pop("Content-Type", None)
        popped == [k \in DOMAIN headers.value \ {"ContentType"} |-> headers.value[k]]
        req == [method |-> "GET", url |-> download_url, headers |-> popped,
                params |-> params]
        reqs == Append(headers.reqs, req)
        gz_path == output_path \o ".gz"
    IN  IF file_id(file_url) = ""
        THEN DownloadResult("ValueError", "file_id", None, cache, <<>>, fs)
        ELSE IF headers.exc # None
        THEN DownloadResult(headers.exc, headers.site, None, headers.cache, headers.reqs,
                            fs \cup {gz_path})
        ELSE IF raise_for_status(resp)
        THEN DownloadResult("HTTPError", "download", None, headers.cache, reqs,
                            fs \cup {gz_path})
        \* open(gz_path, "wb") has created the file when a chunk fails
        ELSE IF fault = "stream"
        THEN DownloadResult("ConnectionError", "stream", None, headers.cache, reqs,
                            fs \cup {gz_path})
        \* gzip.open reads lazily: open(output_path, "wb") has created the CSV
        \* when the first read finds no gzip header
        ELSE IF ~resp.body.gzip
        THEN DownloadResult("BadGzipFile", "gunzip", None, headers.cache, reqs,
                            fs \cup {gz_path, output_path})
        ELSE IF fault = "disk"
        THEN DownloadResult("OSError", "gunzip", None, headers.cache, reqs,
                            fs \cup {gz_path, output_path})
        \* os.remove(gz_path)
        ELSE DownloadResult(None, None, output_path, headers.cache, reqs,
                            (fs \cup {output_path}) \ {gz_path})

\* download_report from the GET on, given what get_auth_headers() did
download_request(file_url, advertiser_id, output_path, cache, fs, resp, fault, headers) ==
    LET download_url == [DOWNLOAD_URL EXCEPT !.path = @ \o "/" \o file_id(file_url)]
        params == [advertiserId |-> advertiser_id]
        \* headers.pop("Content-Type", None)
        popped == [k \in DOMAIN headers.value \ {"ContentType"} |-> headers.value[k]]
        req == [method |-> "GET", url |-> download_url, headers |-> popped,
                params |-> params]
        reqs == Append(headers.reqs, req)
        gz_path == output_path \o ".gz"
    IN  IF file_id(file_url) = ""
        THEN DownloadResult("ValueError", "file_id", None, cache, <<>>, fs)
        ELSE IF headers.exc # None
        THEN DownloadResult(headers.exc, headers.site, None, headers.cache, headers.reqs, fs)
        ELSE IF raise_for_status(resp)
        THEN DownloadResult("HTTPError", "download", None, headers.cache, reqs, fs)
        \* open(gz_path, "wb") has created the file when a chunk fails
        ELSE IF fault = "stream"
        THEN DownloadResult("ConnectionError", "stream", None, headers.cache, reqs,
                            fs \cup {gz_path})
        \* gzip.open reads lazily: open(output_path, "wb") has created the CSV
        \* when the first read finds no gzip header
        ELSE IF ~resp.body.gzip
        THEN DownloadResult("BadGzipFile", "gunzip", None, headers.cache, reqs,
                            fs \cup {gz_path, output_path})
        ELSE IF fault = "disk"
        THEN DownloadResult("OSError", "gunzip", None, headers.cache, reqs,
                            fs \cup {gz_path, output_path})
        \* os.remove(gz_path)
        ELSE DownloadResult(None, None, output_path, headers.cache, reqs,
                            (fs \cup {output_path}) \ {gz_path})

download_report(file_url, advertiser_id, output_path, t, cache, fs, resp, token_resp, keyfile, fault) ==
    download_request(file_url, advertiser_id, output_path, cache, fs, resp, fault,
                     get_auth_headers(<<>>, t, cache, token_resp, keyfile))

Pending == [status |-> 200, json |-> TRUE, body |-> [jobStatus |-> "pending"]]
Queued == [status |-> 200, json |-> TRUE, body |-> [jobStatus |-> "queued"]]
GoodToken == [status |-> 200, json |-> TRUE, body |-> [access_token |-> "tok-a"]]
\* how the status endpoint answers the attempts before the job is terminal
Patterns == {<<Pending>>, <<Queued, Pending>>}

\* poll_snapshot as a whole, against a job j whose attempts before j.doneAt
\* are answered by the responses of `pattern` in turn: the loop from
\* `attempt` on, run to its end.  acc holds the requests and sleeps so far.
RECURSIVE poll_loop(_, _, _, _, _, _, _, _, _, _)
poll_loop(advertiser_id, snapshot_id, attempt, t, cache, j, pattern, token_resp, keyfile, acc) ==
    LET resp == IF attempt < j.doneAt
                THEN pattern[((attempt - 1) % Len(pattern)) + 1]
                ELSE j.final
        it == poll_iteration(advertiser_id, snapshot_id, attempt, t, cache, resp,
                             token_resp, keyfile)
        reqs == acc.reqs \o it.reqs
        sleeps == IF it.slept THEN acc.sleeps + 1 ELSE acc.sleeps
    IN  IF it.next = "continue"
        THEN poll_loop(advertiser_id, snapshot_id, attempt + 1,
                       IF it.slept THEN t + POLL_INTERVAL ELSE t, it.cache, j, pattern,
                       token_resp, keyfile, [reqs |-> reqs, sleeps |-> sleeps])
        ELSE [exc |-> it.exc, site |-> it.site, value |-> it.value, cache |-> it.cache,
              reqs |-> reqs, sleeps |-> sleeps, t |-> t]

poll_snapshot(advertiser_id, snapshot_id, t, cache, j, pattern, token_resp, keyfile) ==
    poll_loop(advertiser_id, snapshot_id, 1, t, cache, j, pattern, token_resp, keyfile,
              [reqs |-> <<>>, sleeps |-> 0])

\* What the world answers during one run of main: the token endpoint, the
\* key file, the create endpoint, the job, the answers before it is terminal,
\* the file endpoint and where the transfer breaks.
World(token, keyfile, create, j, pattern, download, fault) ==
    [token |-> token, keyfile |-> keyfile, create |-> create, job |-> j,
     pattern |-> pattern, download |-> download, fault |-> fault]

WALMART_ADVERTISER_IDS == {"", "600001"}
MainReportTypes == {"campaign", "video"}
\* the dates on the command line: the malformed one, yesterday and today
MainDates == {d \in DateStrings : ~d.ok \/ d.day \in {0 - 1, 0}}

\* The except clauses of main, in order.  `requests` is not imported in
\* report_fetcher.py: an exception that is not a ValueError reaches the
\* clause `except requests.exceptions.HTTPError`, whose evaluation raises
\* NameError, and the process ends with a traceback and status 1.
handle(exc) ==
    IF exc \in {"ValueError", "JSONDecodeError"}
    THEN [exit |-> 1, uncaught |-> None]
    ELSE [exit |-> 1, uncaught |-> "NameError"]

MainResult(exit, uncaught, site, steps, r, reqs, created, polled, sleeps, t, fs) ==
    [exit |-> exit, uncaught |-> uncaught, steps |-> steps, exc |-> r.exc,
     site |-> site, value |-> r.value, cache |-> r.cache, reqs |-> reqs,
     created |-> created, polled |-> polled, sleeps |-> sleeps, t |-> t, files |-> fs]

Step(name, r) == [name |-> name, exc |-> r.exc]

\* The steps of main, last first.  Each step is given the results of the
\* steps before it.
\* main from the end of download_report: print_summary, or the handler
main_summary(advertiser_id, t, fs, w, c, p, d) ==
    IF d.exc # None
    THEN MainResult(handle(d.exc).exit, handle(d.exc).uncaught, d.site,
                    <<Step("create", c), Step("poll", p), Step("download", d)>>, d,
                    c.reqs \o p.reqs \o d.reqs, c.value, <<p.value>>, p.sleeps, p.t,
                    d.files)
    ELSE MainResult(0, None, None,
                    <<Step("create", c), Step("poll", p), Step("download", d)>>, d,
                    c.reqs \o p.reqs \o d.reqs, c.value, <<p.value>>, p.sleeps, p.t,
                    d.files)

\* main from the end of poll_snapshot: step 3 with result["details"]
main_download(advertiser_id, t, fs, w, c, p) ==
    IF p.exc # None
    THEN MainResult(handle(p.exc).exit, handle(p.exc).uncaught, p.site,
                    <<Step("create", c), Step("poll", p)>>, p, c.reqs \o p.reqs,
                    c.value, <<>>, p.sleeps, p.t, fs)
    ELSE main_summary(advertiser_id, t, fs, w, c, p,
                      download_report(p.value.details, advertiser_id,
                                      CHOOSE path \in OutputPaths : TRUE, p.t, p.cache,
                                      fs, w.download, w.token, w.keyfile, w.fault))

\* main_poll that goes on to step 2 whatever create_snapshot did
main_poll_keep_going(advertiser_id, t, fs, w, c) ==
    main_download(advertiser_id, t, fs, w, c,
                  poll_snapshot(advertiser_id, c.value, t, c.cache, w.job,
                                w.pattern, w.token, w.keyfile))

\* main from the end of create_snapshot: step 2 with the snapshot id
main_poll(advertiser_id, t, fs, w, c) ==
    IF c.exc # None
    THEN MainResult(handle(c.exc).exit, handle(c.exc).uncaught, c.site,
                    <<Step("create", c)>>, c, c.reqs, None, <<>>, 0, t, fs)
    ELSE main_download(advertiser_id, t, fs, w, c,
                       poll_snapshot(advertiser_id, c.value, t, c.cache, w.job,
                                     w.pattern, w.token, w.keyfile))

main(cli_id, configured_id, report_type, start_date, end_date, t, cache, fs, w) ==
    LET advertiser_id == IF cli_id # None THEN cli_id ELSE configured_id
        nothing == Result(None, None, None, cache, <<>>)
    IN  \* parse_args: argparse refuses a type outside choices with status 2
        IF ~(\E i \in DOMAIN VALID_REPORT_TYPES : VALID_REPORT_TYPES[i] = report_type)
        THEN MainResult(2, None, "report_type", <<>>, nothing, <<>>, None, <<>>, 0, t, fs)
        ELSE IF advertiser_id = ""
        THEN MainResult(1, None, "advertiser_id", <<>>, nothing, <<>>, None, <<>>, 0, t, fs)
        ELSE IF ~start_date.ok \/ ~end_date.ok
        THEN MainResult(1, None, "date_format", <<>>, nothing, <<>>, None, <<>>, 0, t, fs)
        ELSE main_poll(advertiser_id, t, fs, w,
                       create_snapshot(advertiser_id, report_type, start_date, end_date,
                                       t, cache, w.create, w.token, w.keyfile))

(***************************************************************************)
(* The state machine.  A call runs when the flow is idle; when it has      *)
(* ended, op holds what it did until the caller takes the result (Return). *)
(* The transport draws a response only for a request that is issued, and   *)
(* the key file is looked at only when it is opened.                       *)
(***************************************************************************)
NoExchange == [some |-> FALSE, t |-> 0, expires_in |-> 0, token |-> None]
NoJob == [doneAt |-> 0, final |-> [status |-> 0, json |-> FALSE, body |-> [error |-> "x"]]]
NoCall == [name |-> None]
AnyResponse == [status |-> 500, json |-> FALSE, body |-> [error |-> "x"]]

Call(name, args, t, r, attempt, sleeps, ex) ==
    [name |-> name, args |-> args, t |-> t, cache0 |-> token_cache,
     prevEx |-> lastEx, ex |-> ex, exc |-> r.exc, site |-> r.site,
     value |-> r.value, reqs |-> r.reqs, attempt |-> attempt, sleeps |-> sleeps]

HasRequestTo(reqs, url) ==
    \E i \in DOMAIN reqs : reqs[i].url.host = url.host /\ reqs[i].url.path = url.path

\* what the token endpoint may answer, if it is asked
Answers(reqs, url, responses) ==
    IF HasRequestTo(reqs, url) THEN responses ELSE {AnyResponse}
\* what the key file may be, if it is opened: it is opened when the call
\* gets as far as signing, which is when it succeeds with a good key
KeyFilesIf(opened) == IF opened THEN KeyFiles ELSE {"pem"}

Init ==
    /\ now = 0
    /\ env \in Envs
    /\ token_cache = [access_token |-> None, expires_at |-> 0]
    /\ pc = "idle"
    /\ op = NoCall
    /\ job = NoJob
    /\ lastEx = NoExchange
    /\ files = {}

\* time passes
Tick ==
    /\ pc = "idle"
    /\ now < MaxTime
    /\ now' = now + 1
    /\ UNCHANGED <<env, token_cache, pc, op, job, lastEx, files>>

\* the caller takes the result of the call that ended
Return ==
    /\ pc = "returned"
    /\ pc' = "idle"
    /\ op' = NoCall
    /\ job' = NoJob
    /\ UNCHANGED <<now, env, token_cache, lastEx, files>>

\* the exchange a call of get_auth_headers that ended as r completed
ExchangeOf(r, t, resp) ==
    IF r.reqs # <<>> /\ r.exc \in {None, "FileNotFoundError"}
    THEN [some |-> TRUE, t |-> t, expires_in |-> Get(resp.body, "expires_in", 3600),
          token |-> resp.body.access_token]
    ELSE NoExchange

\* the exchange among the requests of a call of create_snapshot or
\* poll_snapshot, when the token endpoint answered it with a token
ExchangeIn(reqs, t, resp) ==
    IF /\ HasRequestTo(reqs, TOKEN_URL)
       /\ ~raise_for_status(resp)
       /\ resp.json
       /\ "access_token" \in DOMAIN resp.body
    THEN [some |-> TRUE, t |-> t, expires_in |-> Get(resp.body, "expires_in", 3600),
          token |-> resp.body.access_token]
    ELSE NoExchange

Methods == {"GET", "post"}
Urls == {TOKEN_URL, [BASE_URL EXCEPT !.path = BASE_URL.path \o "/snapshot",
                                     !.query = "advertiserId=600001"]}

\* a caller asks the credential provider for the headers of a request
Headers ==
    /\ pc = "idle"
    /\ \E method \in Methods, url \in Urls :
        \E resp \in Answers(get_auth_headers(<<method, url>>, now, token_cache,
                                             AnyResponse, "pem").reqs,
                            TOKEN_URL, TokenResponses) :
            \E keyfile \in KeyFilesIf(get_auth_headers(<<method, url>>, now, token_cache,
                                                       resp, "pem").exc = None) :
                LET r == get_auth_headers(<<method, url>>, now, token_cache, resp, keyfile)
                    ex == ExchangeOf(r, now, resp)
                IN  /\ op' = Call("headers", <<method, url>>, now, r, 0, 0, ex)
                    /\ token_cache' = r.cache
                    /\ lastEx' = IF ex.some THEN ex ELSE lastEx
    /\ pc' = "returned"
    /\ UNCHANGED <<now, env, job, files>>

CreateSnapshot ==
    /\ pc = "idle"
    /\ \E advertiser_id \in AdvertiserIds, report_type \in ReportTypes,
          start_date \in DateStrings, end_date \in DateStrings :
        \E token_resp \in Answers(create_snapshot(advertiser_id, report_type, start_date,
                                      end_date, now, token_cache, AnyResponse,
                                      AnyResponse, "pem").reqs,
                                  TOKEN_URL, TokenResponses) :
            \E keyfile \in KeyFilesIf(HasRequestTo(
                              create_snapshot(advertiser_id, report_type, start_date,
                                  end_date, now, token_cache, AnyResponse,
                                  token_resp, "pem").reqs, SnapshotReportUrl)) :
                \E resp \in Answers(create_snapshot(advertiser_id, report_type,
                                        start_date, end_date, now, token_cache,
                                        AnyResponse, token_resp, keyfile).reqs,
                                    SnapshotReportUrl, CreateResponses) :
                    LET r == create_snapshot(advertiser_id, report_type, start_date,
                                 end_date, now, token_cache, resp, token_resp, keyfile)
                    IN  /\ op' = Call("create",
                                      <<advertiser_id, report_type, start_date, end_date>>,
                                      now, r, 0, 0, ExchangeIn(r.reqs, now, token_resp))
                                   @@ [answer |-> resp]
                        /\ token_cache' = r.cache
                        /\ lastEx' = IF ExchangeIn(r.reqs, now, token_resp).some
                                     THEN ExchangeIn(r.reqs, now, token_resp) ELSE lastEx
    /\ pc' = "returned"
    /\ UNCHANGED <<now, env, job, files>>

\* poll_snapshot is called, for a job the server will report as j
PollCall ==
    /\ pc = "idle"
    /\ \E advertiser_id \in AdvertiserIds, snapshot_id \in SnapshotIds, j \in Jobs :
        /\ job' = j
        /\ op' = Call("poll", <<advertiser_id, snapshot_id>>, now,
                      Result(None, None, None, token_cache, <<>>), 1, 0, NoExchange)
    /\ pc' = "poll"
    /\ UNCHANGED <<now, env, token_cache, lastEx, files>>

\* one attempt of the loop of poll_snapshot
PollAttempt ==
    /\ pc = "poll"
    /\ \E token_resp \in Answers(poll_iteration(op.args[1], op.args[2], op.attempt, now,
                                     token_cache, AnyResponse, AnyResponse, "pem").reqs,
                                 TOKEN_URL, TokenResponses) :
        \E keyfile \in KeyFilesIf(HasRequestTo(
                          poll_iteration(op.args[1], op.args[2], op.attempt, now,
                              token_cache, AnyResponse, token_resp, "pem").reqs,
                          SnapshotUrl)) :
            \E resp \in Answers(poll_iteration(op.args[1], op.args[2], op.attempt, now,
                                    token_cache, AnyResponse, token_resp, keyfile).reqs,
                                SnapshotUrl, StatusResponses(job, op.attempt)) :
                LET it == poll_iteration(op.args[1], op.args[2], op.attempt, now,
                                         token_cache, resp, token_resp, keyfile)
                IN  /\ op' = [op EXCEPT !.exc = it.exc, !.site = it.site,
                                        !.value = it.value,
                                        !.reqs = op.reqs \o it.reqs,
                                        !.sleeps = IF it.slept THEN op.sleeps + 1
                                                   ELSE op.sleeps,
                                        !.attempt = IF it.next = "continue"
                                                    THEN op.attempt + 1 ELSE op.attempt]
                    /\ token_cache' = it.cache
                    /\ lastEx' = IF ExchangeIn(it.reqs, now, token_resp).some
                                 THEN ExchangeIn(it.reqs, now, token_resp) ELSE lastEx
                    /\ now' = IF it.slept THEN now + POLL_INTERVAL ELSE now
                    /\ pc' = IF it.next = "continue" THEN "poll" ELSE "returned"
    /\ UNCHANGED <<env, job, files>>

HasDownload(reqs) == \E i \in DOMAIN reqs : reqs[i].url.host = DOWNLOAD_URL.host

\* download_report is called
Download ==
    /\ pc = "idle"
    /\ \E file_url \in FileUrls, advertiser_id \in AdvertiserIds, output_path \in OutputPaths :
        \E token_resp \in Answers(download_report(file_url, advertiser_id, output_path,
                                      now, token_cache, files, AnyResponse, AnyResponse,
                                      "pem", "none").reqs,
                                  TOKEN_URL, TokenResponses) :
            \E keyfile \in KeyFilesIf(HasDownload(
                              download_report(file_url, advertiser_id, output_path, now,
                                  token_cache, files, AnyResponse, token_resp, "pem",
                                  "none").reqs)) :
                \E resp \in (IF HasDownload(download_report(file_url, advertiser_id,
                                   output_path, now, token_cache, files, AnyResponse,
                                   token_resp, keyfile, "none").reqs)
                             THEN DownloadResponses ELSE {AnyResponse}) :
                    \E fault \in (IF resp.status = 200 THEN Faults ELSE {"none"}) :
                        LET r == download_report(file_url, advertiser_id, output_path, now,
                                     token_cache, files, resp, token_resp, keyfile, fault)
                        IN  /\ op' = Call("download", <<file_url, advertiser_id, output_path>>,
                                          now, r, 0, 0, ExchangeIn(r.reqs, now, token_resp))
                            /\ token_cache' = r.cache
                            /\ files' = r.files
                            /\ lastEx' = IF ExchangeIn(r.reqs, now, token_resp).some
                                         THEN ExchangeIn(r.reqs, now, token_resp)
                                         ELSE lastEx
    /\ pc' = "returned"
    /\ UNCHANGED <<now, env, job>>

\* the command line of a run, with the advertiser id the environment sets
Argvs ==
    [advertiser_id : {None} \cup AdvertiserIds, WALMART_ADVERTISER_ID : WALMART_ADVERTISER_IDS,
     report_type : MainReportTypes, start_date : MainDates, end_date : MainDates]

\* a run of main at the current state
run(argv, w) ==
    main(argv.advertiser_id, argv.WALMART_ADVERTISER_ID, argv.report_type,
         argv.start_date, argv.end_date, now, token_cache, files, w)

\* The worlds of a run: the one in which every step succeeds, at the second
\* poll, and those that differ from it in one answer.
Happy ==
    World(GoodToken, "pem",
          [status |-> 200, json |-> TRUE, body |-> [snapshotId |-> "snap-1"]],
          [doneAt |-> 2,
           final |-> [status |-> 200, json |-> TRUE,
                      body |-> [jobStatus |-> "done", details |-> DetailsUrl]]],
          <<Pending>>,
          [status |-> 200, json |-> FALSE, body |-> [gzip |-> TRUE, data |-> "csv"]],
          "none")
Worlds ==
    {Happy,
     [Happy EXCEPT !.token = AnyResponse],
     [Happy EXCEPT !.keyfile = "missing"],
     [Happy EXCEPT !.create = AnyResponse],
     [Happy EXCEPT !.create.body = [message |-> "x"]],
     [Happy EXCEPT !.job.final = AnyResponse],
     [Happy EXCEPT !.job.final.body = [jobStatus |-> "failed"]],
     [Happy EXCEPT !.job.final.body = [jobStatus |-> "expired"]],
     [Happy EXCEPT !.job.final.body = [jobStatus |-> "done"]],
     [Happy EXCEPT !.job.doneAt = MAX_POLL_ATTEMPTS + 1],
     [Happy EXCEPT !.pattern = <<Queued, Pending>>],
     [Happy EXCEPT !.download = AnyResponse],
     [Happy EXCEPT !.download.body = [gzip |-> FALSE, data |-> "html"]],
     [Happy EXCEPT !.fault = "stream"],
     [Happy EXCEPT !.fault = "disk"]}

\* what a run of main that ended as r leaves behind
MainEnds(argv, token, r) ==
    /\ op' = [name |-> "main", args |-> argv, t |-> now, cache0 |-> token_cache,
              prevEx |-> lastEx, ex |-> ExchangeIn(r.reqs, now, token), exc |-> r.exc,
              site |-> r.site, value |-> r.value, reqs |-> r.reqs, attempt |-> 0,
              sleeps |-> r.sleeps, exit |-> r.exit, uncaught |-> r.uncaught,
              steps |-> r.steps, created |-> r.created, polled |-> r.polled]
    /\ token_cache' = r.cache
    /\ files' = r.files
    /\ now' = r.t
    /\ lastEx' = IF ExchangeIn(r.reqs, now, token).some
                 THEN ExchangeIn(r.reqs, now, token) ELSE lastEx

\* one run of main, from the command line to the exit status
Main ==
    /\ pc = "idle"
    /\ \E argv \in Argvs, w \in Worlds :
        \E r \in {run(argv, w)} : MainEnds(argv, w.token, r)
    /\ pc' = "returned"
    /\ UNCHANGED <<env, job>>

Next ==
    Tick \/ Return \/ Headers \/ CreateSnapshot \/ PollCall \/ PollAttempt \/ Download \/ Main

Spec == Init /\ [][Next]_vars

\* the interpreter keeps executing the loop of poll_snapshot once it is in it
FairSpec == Spec /\ WF_vars(PollAttempt)

(***************************************************************************)
(* Properties.  The error kinds of the specification are the exception     *)
(* classes of the code: ValidationError is ValueError, ApiError is         *)
(* requests' HTTPError, PollTimeoutError is TimeoutError, and              *)
(* ProtocolError, JobFailedError and JobExpiredError are RuntimeError,      *)
(* told apart by the raise statement (site).                               *)
(***************************************************************************)
PollEnded == pc = "returned" /\ op.name = "poll"
CreateEnded == pc = "returned" /\ op.name = "create"
HeadersEnded == pc = "returned" /\ op.name = "headers"

\* the requests of a call to a URL with a method
Count(reqs, method, url) ==
    Cardinality({i \in DOMAIN reqs : /\ reqs[i].method = method
                                     /\ reqs[i].url.host = url.host
                                     /\ reqs[i].url.path = url.path})
Gets == Count(op.reqs, "GET", SnapshotUrl)
Exchanges == Count(op.reqs, "POST", TOKEN_URL)

\* the call ended in the credential provider for a reason of its own
\* environment: a missing setting, a rejected or malformed exchange, or an
\* unreadable key (ConfigurationError, AuthError)
CredentialFailure ==
    op.site \in {"WALMART_CLIENT_ID", "WALMART_CLIENT_SECRET", "WALMART_PRIVATE_KEY_PATH",
                 "token", "access_token", "private_key"}

\* the job's first terminal answer comes within the attempt budget
JobEndsInBudget == job.doneAt <= MAX_POLL_ATTEMPTS
JobDone ==
    /\ JobEndsInBudget
    /\ job.final.status = 200
    /\ Get(job.final.body, "jobStatus", "unknown") = "done"
    /\ Get(job.final.body, "details", "") # ""
JobStatusIs(status) ==
    /\ JobEndsInBudget
    /\ job.final.status = 200
    /\ Get(job.final.body, "jobStatus", "unknown") = status

\* C1: poll success exit.  When the first terminal status comes at attempt
\* k <= MAX_POLL_ATTEMPTS and is done with a non-empty details URL, every
\* earlier status being non-terminal, poll_snapshot returns that k-th record
\* after exactly k GETs and k-1 sleeps; and it returns a record in no other
\* case.  (Here and in C2-C5 a call that ends in the credential provider's
\* own environment, a CredentialFailure, is outside the claim.)
C1_PollSuccessExit ==
    (PollEnded /\ ~CredentialFailure) =>
        /\ JobDone => /\ op.exc = None
                      /\ op.value = job.final.body
                      /\ Gets = job.doneAt
                      /\ op.sleeps = job.doneAt - 1
        /\ op.exc = None => JobDone

\* C2: poll timeout.  When all MAX_POLL_ATTEMPTS attempts get a 2xx answer
\* with a non-terminal status, poll_snapshot fails with PollTimeoutError
\* after exactly MAX_POLL_ATTEMPTS GETs and MAX_POLL_ATTEMPTS-1 sleeps.
C2_PollTimeout ==
    (PollEnded /\ ~CredentialFailure /\ ~JobEndsInBudget) =>
        /\ op.exc = "TimeoutError"
        /\ Gets = MAX_POLL_ATTEMPTS
        /\ op.sleeps = MAX_POLL_ATTEMPTS - 1

\* C3: poll terminal failure.  At whichever attempt k a 2xx answer first
\* reports failed (expired), poll_snapshot fails there with JobFailedError
\* (JobExpiredError): k GETs and k-1 sleeps, none after that answer.
C3_PollTerminalFailure ==
    (PollEnded /\ ~CredentialFailure) =>
        /\ JobStatusIs("failed") => /\ op.exc = "RuntimeError"
                                    /\ op.site = "job_failed"
                                    /\ Gets = job.doneAt
                                    /\ op.sleeps = job.doneAt - 1
        /\ JobStatusIs("expired") => /\ op.exc = "RuntimeError"
                                     /\ op.site = "job_expired"
                                     /\ Gets = job.doneAt
                                     /\ op.sleeps = job.doneAt - 1

\* C4: a non-2xx answer to a poll attempt is fatal.  poll_snapshot fails
\* with ApiError at that attempt k: k GETs and k-1 sleeps, none after it.
C4_PollApiErrorFatal ==
    (PollEnded /\ ~CredentialFailure /\ JobEndsInBudget /\ job.final.status # 200) =>
        /\ op.exc = "HTTPError"
        /\ op.site = "poll"
        /\ Gets = job.doneAt
        /\ op.sleeps = job.doneAt - 1

\* the headers get_auth_headers(method, url) builds for a request: signed
\* over the client id, the timestamp, the uppercased method and the URL path
SignedFor(req) ==
    req.headers.WM_SEC_AUTH_SIGNATURE =
        <<env.WALMART_CLIENT_ID, req.headers.WM_CONSUMER_intimestamp,
          Upper(req.method), UrlPath(req.url)>>
ValidInput(args, t) ==
    /\ \E i \in DOMAIN VALID_REPORT_TYPES : VALID_REPORT_TYPES[i] = args[2]
    /\ _validate_dates(args[2], args[3], args[4], t) = None

\* C5: every request create and poll issue carries headers the credential
\* provider built for that request's own method and URL; create with valid
\* input reaches the network and submits exactly one POST with such headers.
C5_RequestsCarrySignedHeaders ==
    /\ (pc = "returned" /\ op.name \in {"create", "poll"}) =>
           \A i \in DOMAIN op.reqs :
               op.reqs[i].url.host = BASE_URL.host => SignedFor(op.reqs[i])
    /\ (CreateEnded /\ ~CredentialFailure /\ ValidInput(op.args, op.t)) =>
           /\ Count(op.reqs, "POST", SnapshotReportUrl) = 1
           /\ \A i \in DOMAIN op.reqs :
                  op.reqs[i].url.host = BASE_URL.host => SignedFor(op.reqs[i])

\* C6: token cache reuse.  After a successful exchange at time t returning
\* expires_in, a headers call before t + expires_in - 60 issues no exchange
\* request and uses the cached token; a headers call at or after that time
\* issues exactly one exchange request, and the headers it returns carry the
\* token of that exchange.
C6_TokenCacheReuse ==
    (HeadersEnded /\ op.prevEx.some) =>
        IF op.t < op.prevEx.t + op.prevEx.expires_in - 60
        THEN /\ Exchanges = 0
             /\ op.exc = None => op.value.Authorization = <<"Bearer", op.prevEx.token>>
        ELSE /\ Exchanges = 1
             /\ op.exc = None => /\ op.ex.some
                                 /\ op.value.Authorization = <<"Bearer", op.ex.token>>

\* a call exactly at the boundary refreshed the token and returned the new one
C6_Witness ==
    /\ HeadersEnded
    /\ op.prevEx.some
    /\ op.t = op.prevEx.t + op.prevEx.expires_in - 60
    /\ op.t > op.prevEx.t
    /\ op.exc = None
    /\ op.ex.some
    /\ op.ex.token # op.prevEx.token
    /\ op.value.Authorization = <<"Bearer", op.ex.token>>

\* The five checks of create, as the specification numbers them, on a
\* request with calendar dates: the numbers of the checks that fail.
FailingChecks(report_type, start, end, today) ==
    {n \in 1 .. 5 :
        \/ n = 1 /\ report_type \notin {"campaign", "lineItem", "tactic", "sku",
                                        "creative", "bid", "newBuyer"}
        \/ n = 2 /\ ~(start <= end)
        \/ n = 3 /\ ~(end < today)
        \/ n = 4 /\ today - start > 730
        \/ n = 5 /\ end - start > (IF report_type = "sku" THEN 15 ELSE 60)}
Lowest(S) == CHOOSE n \in S : \A m \in S : n <= m
CheckSite(n) ==
    CASE n = 1 -> "report_type"
      [] n = 2 -> "start_after_end"
      [] n = 3 -> "end_not_past"
      [] n = 4 -> "start_too_old"
      [] n = 5 -> "range_too_long"
CalendarDates == op.args[3].ok /\ op.args[4].ok
Failing == FailingChecks(op.args[2], op.args[3].day, op.args[4].day, Today(op.t))

\* C7: create validation order.  For a request with calendar dates, create
\* rejects with ValidationError iff at least one of the five checks fails,
\* and the error is that of the lowest-numbered failing check.
C7_ValidationOrder ==
    (CreateEnded /\ CalendarDates) =>
        /\ op.exc = "ValueError" <=> Failing # {}
        /\ Failing # {} => op.site = CheckSite(Lowest(Failing))

\* checks 3 and 4 both fail and the error is that of check 3
C7_Witness ==
    /\ CreateEnded
    /\ CalendarDates
    /\ Failing = {3, 4, 5}
    /\ op.exc = "ValueError"
    /\ op.site = "end_not_past"

\* C8: per-type range limit.  A request that passes checks 1-4 is accepted
\* iff endDate - startDate is at most 15 days for "sku" and at most 60 days
\* for each of the other six report types.
C8_RangeLimit ==
    (CreateEnded /\ CalendarDates /\ Failing \cap (1 .. 4) = {}) =>
        (op.exc # "ValueError" <=>
             op.args[4].day - op.args[3].day
                 <= (IF op.args[2] = "sku" THEN 15 ELSE 60))

\* a "sku" request of 16 days, which any other type would be allowed, is
\* rejected for its range
C8_Witness ==
    /\ CreateEnded
    /\ CalendarDates
    /\ op.args[2] = "sku"
    /\ op.args[4].day - op.args[3].day = 16
    /\ Failing = {5}
    /\ op.exc = "ValueError"
    /\ op.site = "range_too_long"

\* C9: end-date bound.  A request whose endDate is the current day or later
\* is rejected with ValidationError; one whose endDate is yesterday is
\* accepted whenever the type, ordering, age and range checks hold.
C9_EndDateBound ==
    (CreateEnded /\ op.args[4].ok) =>
        /\ op.args[4].day >= Today(op.t) => op.exc = "ValueError"
        /\ (/\ op.args[3].ok
            /\ op.args[4].day = Today(op.t) - 1
            /\ Failing \cap {1, 2, 4, 5} = {}) => op.exc # "ValueError"

\* a request that ends today and passes every other check is rejected
C9_Witness ==
    /\ CreateEnded
    /\ CalendarDates
    /\ op.args[4].day = Today(op.t)
    /\ Failing = {3}
    /\ op.exc = "ValueError"
    /\ op.site = "end_not_past"

\* C10: validation precedes the network.  When create rejects its input
\* with ValidationError, the call has issued no HTTP request (no token
\* exchange, no POST) and the token cache is as it was before the call.
C10_ValidationBeforeNetwork ==
    (CreateEnded /\ op.exc = "ValueError") =>
        /\ op.reqs = <<>>
        /\ token_cache = op.cache0

\* create rejects a request while the cache holds a token that has expired,
\* so that any call of the credential provider would have refreshed it
C10_Witness ==
    /\ CreateEnded
    /\ op.exc = "ValueError"
    /\ op.site = "range_too_long"
    /\ token_cache.access_token # None
    /\ now >= token_cache.expires_at
    /\ op.reqs = <<>>

\* C11: create outcome.  For valid input create issues exactly one POST and
\* never retries; it fails with ApiError on a non-2xx answer, with
\* ProtocolError on a 2xx answer without a snapshotId, and otherwise returns
\* the snapshotId of the answer.  (A CredentialFailure is outside the claim.)
C11_CreateOutcome ==
    (CreateEnded /\ ~CredentialFailure /\ ValidInput(op.args, op.t)) =>
        /\ Count(op.reqs, "POST", SnapshotReportUrl) = 1
        /\ IF ~(200 <= op.answer.status /\ op.answer.status <= 299)
           THEN op.exc = "HTTPError" /\ op.site = "create"
           ELSE IF Get(op.answer.body, "snapshotId", "") = ""
           THEN op.exc = "RuntimeError" /\ op.site = "no_snapshotId"
           ELSE op.exc = None /\ op.value = op.answer.body.snapshotId

JobDoneWithoutDetails ==
    /\ JobStatusIs("done")
    /\ Get(job.final.body, "details", "") = ""

\* C13: done without details.  When the first terminal answer, at attempt
\* k, is a 2xx done whose details URL is absent or empty, poll_snapshot
\* fails with ProtocolError at that attempt: it is not returned, and k GETs
\* and k-1 sleeps have happened, none after it.  (A CredentialFailure is
\* outside the claim.)
C13_DoneWithoutDetails ==
    (PollEnded /\ ~CredentialFailure /\ JobDoneWithoutDetails) =>
        /\ op.exc = "RuntimeError"
        /\ op.site = "done_no_details"
        /\ Gets = job.doneAt
        /\ op.sleeps = job.doneAt - 1

\* C14: per-call timestamp.  In the headers a call returns,
\* WM_CONSUMER.intimestamp is the timestamp in the string that was signed,
\* and it is the clock of this call in milliseconds, also when the bearer
\* token is reused from the cache.
C14_PerCallTimestamp ==
    (HeadersEnded /\ op.exc = None) =>
        /\ op.value.WM_CONSUMER_intimestamp = op.value.WM_SEC_AUTH_SIGNATURE[2]
        /\ op.value.WM_CONSUMER_intimestamp = op.t * 1000

\* a call reuses the token of an earlier second and carries its own time
C14_Witness ==
    /\ HeadersEnded
    /\ op.exc = None
    /\ Exchanges = 0
    /\ op.prevEx.some
    /\ op.t > op.prevEx.t
    /\ op.value.Authorization = <<"Bearer", op.prevEx.token>>
    /\ op.value.WM_CONSUMER_intimestamp = op.t * 1000
    /\ op.value.WM_SEC_AUTH_SIGNATURE[2] = op.t * 1000

MissingCredential ==
    \/ env.WALMART_CLIENT_ID = ""
    \/ env.WALMART_CLIENT_SECRET = ""
    \/ env.WALMART_PRIVATE_KEY_PATH = ""

CacheAfter(ex) ==
    IF ex.some
    THEN [access_token |-> ex.token, expires_at |-> ex.t + ex.expires_in - 60]
    ELSE [access_token |-> None, expires_at |-> 0]

\* C19: token cache invariant and frame.  The cache is the initial empty
\* cache, or holds the token of the most recent successful exchange with
\* expires_at = (start of that exchange) + expires_in - 60, expires_in being
\* 3600 when the answer has none; and a step changes the cache only by a
\* successful exchange made in that step.
C19_TokenCache ==
    /\ [](token_cache = CacheAfter(lastEx))
    /\ [][token_cache' # token_cache =>
            /\ HasRequestTo(op'.reqs, TOKEN_URL)
            /\ lastEx'.some
            /\ lastEx'.t = now
            /\ token_cache'.access_token = lastEx'.token]_vars

\* a later call hits a cache filled by an exchange without expires_in
C19_Witness ==
    /\ HeadersEnded
    /\ op.exc = None
    /\ Exchanges = 0
    /\ lastEx.some
    /\ lastEx.expires_in = 3600
    /\ op.t > lastEx.t
    /\ token_cache = op.cache0
    /\ token_cache.expires_at = lastEx.t + 3540

\* the way a poll of job j fails, by what the status endpoint answers:
\* None when it answers done with a details URL in time
FailureWay(j) ==
    IF j.doneAt > MAX_POLL_ATTEMPTS THEN "PollTimeoutError"
    ELSE IF ~(200 <= j.final.status /\ j.final.status <= 299) THEN "ApiError"
    ELSE IF Get(j.final.body, "jobStatus", "unknown") = "failed" THEN "JobFailedError"
    ELSE IF Get(j.final.body, "jobStatus", "unknown") = "expired" THEN "JobExpiredError"
    ELSE IF Get(j.final.body, "details", "") = "" THEN "ProtocolError"
    ELSE None

\* C16: distinct failure kinds.  The five ways poll_snapshot can fail have
\* pairwise distinct error kinds: a poll that failed one way ended with a
\* kind that a poll from the same state failing any other way does not end
\* with.  (A CredentialFailure is outside the claim.)
C16_DistinctFailureKinds ==
    (PollEnded /\ ~MissingCredential /\ ~CredentialFailure /\ FailureWay(job) # None) =>
        \A j \in Jobs :
            (FailureWay(j) # None /\ FailureWay(j) # FailureWay(job)) =>
                poll_snapshot(op.args[1], op.args[2], op.t, op.cache0, j, <<Pending>>,
                              GoodToken, "pem").exc # op.exc

\* C17: bounded polling.  At every point of a poll the GETs g and the sleeps
\* s satisfy g <= MAX_POLL_ATTEMPTS, s <= g <= s + 1 and
\* s <= MAX_POLL_ATTEMPTS - 1, and every poll that is running ends.
C17_BoundedPolling ==
    /\ []((pc = "poll" \/ PollEnded) =>
            /\ Gets <= MAX_POLL_ATTEMPTS
            /\ op.sleeps <= Gets
            /\ Gets <= op.sleeps + 1
            /\ op.sleeps <= MAX_POLL_ATTEMPTS - 1)
    /\ ((pc = "poll") ~> PollEnded)

\* a poll of a job that would never finish has ended
C17_Witness ==
    /\ PollEnded
    /\ job.doneAt > MAX_POLL_ATTEMPTS
    /\ op.exc # None
    /\ Gets <= MAX_POLL_ATTEMPTS
    /\ op.sleeps <= Gets

DownloadEnded == pc = "returned" /\ op.name = "download"
MainEnded == pc = "returned" /\ op.name = "main"

\* C12: download cleanup.  Whenever a download has ended, by returning or by
\* failing at any point, the intermediate compressed file does not exist.
C12_DownloadCleanup ==
    /\ DownloadEnded => (op.args[3] \o ".gz") \notin files
    /\ MainEnded => \A path \in OutputPaths : (path \o ".gz") \notin files

\* a download of a well-formed file URL has failed and left no .gz file
C12_Witness ==
    /\ DownloadEnded
    /\ file_id(op.args[1]) # ""
    /\ op.exc # None
    /\ (op.args[3] \o ".gz") \notin files

IsCreatePost(req) ==
    /\ req.method = "POST"
    /\ req.url.host = SnapshotReportUrl.host
    /\ req.url.path = SnapshotReportUrl.path
IsStatusGet(req) ==
    /\ req.method = "GET"
    /\ req.url.host = SnapshotUrl.host
    /\ req.url.path = SnapshotUrl.path
IsDownloadGet(req) == req.method = "GET" /\ req.url.host = DOWNLOAD_URL.host

\* C20: workflow ordering.  In a run of main, a status GET comes after the
\* create POST, when create has returned a snapshotId, and carries that id;
\* the download GET comes after the status GETs, when poll has returned a
\* done record with a details URL, and asks for the file of that URL; and a
\* step that fails is the last step of the run, which exits non-zero.
C20_WorkflowOrdering ==
    MainEnded =>
        /\ \A i \in DOMAIN op.reqs :
            IsStatusGet(op.reqs[i]) =>
                /\ op.created # None
                /\ op.reqs[i].params.snapshotId = op.created
                /\ \E k \in 1 .. (i - 1) : IsCreatePost(op.reqs[k])
        /\ \A i \in DOMAIN op.reqs :
            IsDownloadGet(op.reqs[i]) =>
                /\ op.polled # <<>>
                /\ Get(op.polled[1], "jobStatus", "unknown") = "done"
                /\ Get(op.polled[1], "details", "") # ""
                /\ op.reqs[i].url.path
                       = DOWNLOAD_URL.path \o "/" \o file_id(op.polled[1].details)
                /\ \A k \in DOMAIN op.reqs : IsStatusGet(op.reqs[k]) => k < i
        /\ \A k \in DOMAIN op.steps :
            /\ op.steps[k].name = <<"create", "poll", "download">>[k]
            /\ op.steps[k].exc # None => (k = Len(op.steps) /\ op.exit # 0)

\* a run whose create step failed ended there, with a non-zero status
C20_Witness ==
    /\ MainEnded
    /\ Len(op.steps) = 1
    /\ op.steps[1].name = "create"
    /\ op.steps[1].exc # None
    /\ op.exit # 0

====
